---- MODULE Spec2Model ----
(***************************************************************************)
(* The server-side JobManager (composite-key version): a map of job key   *)
(* to Job record, the pacing timers and countdown intervals kept per key, *)
(* and the processEmail invocations that are awaiting their remote calls. *)
(*                                                                         *)
(* Job records are objects: startJob allocates a new one, and a running    *)
(* processEmail keeps the reference it read at entry.  The heap is the     *)
(* sequence of all records ever allocated; the job map holds indexes into  *)
(* it.  Timer handles that were overwritten in the timers map without      *)
(* being cleared stay active; they are kept in staleTimers/staleIntervals. *)
(*                                                                         *)
(* The live check that processEmail launches for a result is detached: it  *)
(* holds the result item it was launched with and writes to it once, in    *)
(* one step, after its wait and its remote calls.                          *)
(*                                                                         *)
(* Between its entry and its catch/finally, processEmail only awaits       *)
(* remote calls and assigns locals, so one invocation is two steps: the    *)
(* synchronous entry (part of the caller's step) and the continuation that *)
(* runs once the remote calls have settled, with their outcomes as input.  *)
(*                                                                         *)
(* getAccessToken exists twice, in the job manager's module and in the     *)
(* routes module, each with its own accessTokenCache and tokenRefreshLocks.*)
(* A refresh is a promise: it is pending, or settled with a token or an    *)
(* error, and the callers awaiting it resume once it has settled.          *)
(*                                                                         *)
(* The client-side BulkJobManager keeps one AccountState per account and   *)
(* the handle of its last setTimeout in processRefs; a handle that was     *)
(* overwritten while its timeout was pending stays active (leakedTimeouts).*)
(* Its processEmail awaits one request.  The client timer store keeps the  *)
(* start, pause and end times of one timer per account.                    *)
(***************************************************************************)
EXTENDS Bags, FiniteSets, Integers, Sequences, TLC

VARIABLES heap, jobs, timers, countdownIntervals, staleTimers,
          staleIntervals, inflight, liveChecks, lastOp,
          accessTokenCache, tokenRefreshLocks, refreshPromises,
          tokenWaiters, tokenReturn,
          accountStates, processRefs, leakedTimeouts, requests,
          timerStore, now

jobVars == <<heap, jobs, timers, countdownIntervals, staleTimers,
             staleIntervals, inflight, liveChecks>>

tokenVars == <<accessTokenCache, tokenRefreshLocks, refreshPromises,
               tokenWaiters, tokenReturn>>

clientVars == <<accountStates, processRefs, leakedTimeouts, requests>>

storeVars == <<timerStore, now>>

vars == <<heap, jobs, timers, countdownIntervals, staleTimers,
          staleIntervals, inflight, liveChecks, lastOp,
          accessTokenCache, tokenRefreshLocks, refreshPromises,
          tokenWaiters, tokenReturn,
          accountStates, processRefs, leakedTimeouts, requests,
          timerStore, now>>

\* ---------------------------------------------------------------- bounds
MaxJobs == 2
MaxEmails == 2
MaxInFlight == 2
MaxDelay == 1
MaxRefresh == 3
MaxWaiters == 3
MaxLeaked == 2
MaxClock == 5

\* ---------------------------------------------------------------- domains
AccountIds == {"1"}
Platforms == {"crm", "bigin"}
AllEmails == <<"a@x.com", "b@x.com", "c@x.com", "d@x.com">>
Undefined == "undefined"
NoJob == 0
NoError == "none"
NoTimer == [key |-> "", job |-> 0, delay |-> 0]

getJobKey(accountId, platform) == platform \o "-" \o accountId

JobKeys == {getJobKey(a, p) : a \in AccountIds, p \in Platforms}

\* the two modules that define getAccessToken and its cache and locks
TokenCopies == {"jobManager", "routes"}
NoCache == [token |-> 0, fresh |-> FALSE]
NoLock == 0
NoReturn == [copy |-> "", id |-> "", promise |-> 0, result |-> 0]

\* the timer store of the client: null is 0 (Date.now() is never 0), and a
\* key without a timer holds NoTimerData
Null == 0
NoTimerData == [startTime |-> Null, endTime |-> Null, totalPausedTime |-> -1,
                lastPauseTime |-> Null]

\* BulkJobManager.getInitialState, reduced to the fields the manager branches
\* on; fromOk says whether fromAddresses holds an entry for fromEmail
getInitialState ==
    [emailsToProcess |-> <<>>, results |-> <<>>, isProcessing |-> FALSE,
     isPaused |-> FALSE, currentEmailIndex |-> 0, fromOk |-> FALSE]

EmailLists(n) == {SubSeq(AllEmails, 1, m) : m \in 0..n}

\* job.emails[job.currentIndex]: a read past the end of the array is undefined
ItemAt(emails, i) == IF i < Len(emails) THEN emails[i + 1] ELSE Undefined

\* formData, reduced to the fields the scheduler branches on; fromMatch says
\* whether formData.fromAddresses holds an entry whose email is formData.fromEmail
FormDatas == [sendEmail : BOOLEAN, checkStatus : BOOLEAN, fromMatch : BOOLEAN]

\* what the remote collaborators answer during one dispatch
Outcomes == [account : {"found", "missing"},
             token : {"ok", "error"},
             create : {"success", "duplicate", "rejected", "throw"},
             send : {"success", "rejected", "throw"}]

\* ---------------------------------------------------------------- state
Store == [heap |-> heap, jobs |-> jobs, timers |-> timers,
          countdownIntervals |-> countdownIntervals,
          staleTimers |-> staleTimers, staleIntervals |-> staleIntervals,
          inflight |-> inflight, liveChecks |-> liveChecks]

\* A record that is no longer in the job map and that no running processEmail
\* or live check holds is unreachable: the runtime reclaims it, and nothing
\* can read or write it again.  Its slot keeps a fixed value.
Freed == [accountId |-> "", emails |-> <<>>, results |-> <<>>,
          status |-> "freed", currentIndex |-> 0, totalEmails |-> 0,
          delay |-> 0, formData |-> [sendEmail |-> FALSE, checkStatus |-> FALSE,
                                     fromMatch |-> FALSE],
          error |-> NoError, countdown |-> 0, platform |-> ""]

Reachable(s, j) ==
    \/ \E k \in JobKeys : s.jobs[k] = j
    \/ \E d \in BagToSet(s.inflight) : d.job = j
    \/ \E c \in s.liveChecks : c.job = j

collect(s) ==
    [j \in 1..Len(s.heap) |-> IF Reachable(s, j) THEN s.heap[j] ELSE Freed]

Commit(s) ==
    /\ heap' = collect(s)
    /\ jobs' = s.jobs
    /\ timers' = s.timers
    /\ countdownIntervals' = s.countdownIntervals
    /\ staleTimers' = s.staleTimers
    /\ staleIntervals' = s.staleIntervals
    /\ inflight' = s.inflight
    /\ liveChecks' = s.liveChecks
    /\ UNCHANGED tokenVars
    /\ UNCHANGED clientVars
    /\ UNCHANGED storeVars

Init ==
    /\ heap = <<>>
    /\ jobs = [k \in JobKeys |-> NoJob]
    /\ timers = [k \in JobKeys |-> NoTimer]
    /\ countdownIntervals = [k \in JobKeys |-> FALSE]
    /\ staleTimers = EmptyBag
    /\ staleIntervals = [k \in JobKeys |-> 0]
    /\ inflight = EmptyBag
    /\ liveChecks = {}
    /\ lastOp = [op |-> "init", key |-> ""]
    /\ accessTokenCache = [c \in TokenCopies |-> [a \in AccountIds |-> NoCache]]
    /\ tokenRefreshLocks = [c \in TokenCopies |-> [a \in AccountIds |-> NoLock]]
    /\ refreshPromises = <<>>
    /\ tokenWaiters = EmptyBag
    /\ tokenReturn = NoReturn
    /\ accountStates = [a \in AccountIds |-> getInitialState]
    /\ processRefs = [a \in AccountIds |-> "null"]
    /\ leakedTimeouts = [a \in AccountIds |-> 0]
    /\ requests = EmptyBag
    /\ timerStore = [k \in JobKeys |-> NoTimerData]
    /\ now = 1

\* ---------------------------------------------------------------- helpers
newJob(accountId, emails, delay, formData, platform) ==
    [accountId |-> accountId, emails |-> emails, results |-> <<>>,
     status |-> "processing", currentIndex |-> 0, totalEmails |-> Len(emails),
     delay |-> delay, formData |-> formData, error |-> NoError,
     countdown |-> 0, platform |-> platform]

clearTimersOfAllKeys(s, jobKey) ==
    [s EXCEPT !.timers = [k \in JobKeys |-> NoTimer],
              !.countdownIntervals = [k \in JobKeys |-> FALSE]]

clearTimers(s, jobKey) ==
    [s EXCEPT !.timers[jobKey] = NoTimer,
              !.countdownIntervals[jobKey] = FALSE]

scheduleNextTickerOnly(s, jobKey) ==
    LET j == s.jobs[jobKey] IN
    IF j = NoJob \/ s.heap[j].status # "processing" THEN s
    ELSE IF s.heap[j].currentIndex >= s.heap[j].totalEmails
    THEN clearTimers([s EXCEPT !.heap[j].status = "completed"], jobKey)
    ELSE [s EXCEPT
            !.heap[j].countdown = s.heap[j].delay,
            !.staleIntervals[jobKey] =
                IF s.countdownIntervals[jobKey] THEN @ + 1 ELSE @,
            !.countdownIntervals[jobKey] = TRUE]

scheduleNextNoStatusCheck(s, jobKey) ==
    LET j == s.jobs[jobKey] IN
    IF j = NoJob THEN s
    ELSE IF s.heap[j].currentIndex >= s.heap[j].totalEmails
    THEN clearTimers([s EXCEPT !.heap[j].status = "completed"], jobKey)
    ELSE [s EXCEPT
            !.heap[j].countdown = s.heap[j].delay,
            !.staleIntervals[jobKey] =
                IF s.countdownIntervals[jobKey] THEN @ + 1 ELSE @,
            !.countdownIntervals[jobKey] = TRUE,
            !.staleTimers =
                IF s.timers[jobKey] # NoTimer
                THEN @ (+) SetToBag({s.timers[jobKey]}) ELSE @,
            !.timers[jobKey] =
                [key |-> jobKey, job |-> j, delay |-> s.heap[j].delay]]

\* timers.set / countdownIntervals.set replace the handle stored under the key
\* without clearing it: a handle that was there stays active.  A timer handle
\* carries the delay it was armed with and the record whose delay that was.
scheduleNext(s, jobKey) ==
    LET j == s.jobs[jobKey] IN
    IF j = NoJob \/ s.heap[j].status # "processing" THEN s
    ELSE IF s.heap[j].currentIndex >= s.heap[j].totalEmails
    THEN clearTimers([s EXCEPT !.heap[j].status = "completed"], jobKey)
    ELSE [s EXCEPT
            !.heap[j].countdown = s.heap[j].delay,
            !.staleIntervals[jobKey] =
                IF s.countdownIntervals[jobKey] THEN @ + 1 ELSE @,
            !.countdownIntervals[jobKey] = TRUE,
            !.staleTimers =
                IF s.timers[jobKey] # NoTimer
                THEN @ (+) SetToBag({s.timers[jobKey]}) ELSE @,
            !.timers[jobKey] =
                [key |-> jobKey, job |-> j, delay |-> s.heap[j].delay]]

processEmailNoStatusCheck(s, jobKey) ==
    LET j == s.jobs[jobKey] IN
    IF j = NoJob THEN s
    ELSE [s EXCEPT !.inflight = @ (+) SetToBag({
            [key |-> jobKey, job |-> j,
             email |-> ItemAt(s.heap[j].emails, s.heap[j].currentIndex),
             index |-> s.heap[j].currentIndex]})]

\* processEmail up to its first await.  The invocation keeps the record it
\* read (job) and the item it read (email); index is the value currentIndex
\* had at that read.
processEmail(s, jobKey) ==
    LET j == s.jobs[jobKey] IN
    IF j = NoJob \/ s.heap[j].status # "processing" THEN s
    ELSE [s EXCEPT !.inflight = @ (+) SetToBag({
            [key |-> jobKey, job |-> j,
             email |-> ItemAt(s.heap[j].emails, s.heap[j].currentIndex),
             index |-> s.heap[j].currentIndex]})]

runStagesNoFromCheck(formData, o) ==
    LET initial == [critical |-> FALSE, error |-> NoError,
                    contactStatus |-> "Failed", emailStatus |-> "Skipped",
                    contactId |-> "null",
                    contact |-> "empty", email |-> "empty"]
        afterCreate ==
            CASE o.create = "success" ->
                    [initial EXCEPT !.contactStatus = "Success",
                                    !.contactId = "new", !.contact = "data"]
              [] o.create = "duplicate" ->
                    [initial EXCEPT !.contactStatus = "Success",
                                    !.contactId = "existing",
                                    !.contact = "DUPLICATE_DATA"]
              [] o.create = "rejected" -> [initial EXCEPT !.contact = "data"]
              [] OTHER -> [initial EXCEPT !.contact = "error"]
        afterSend ==
            IF afterCreate.contactId # "null" /\ formData.sendEmail
            THEN CASE o.send = "success" ->
                        [afterCreate EXCEPT !.emailStatus = "Success",
                                            !.email = "data"]
                   [] o.send = "rejected" ->
                        [afterCreate EXCEPT !.emailStatus = "Failed",
                                            !.email = "data"]
                   [] OTHER ->
                        [afterCreate EXCEPT !.emailStatus = "Failed",
                                            !.email = "error"]
            ELSE IF ~formData.sendEmail
            THEN [afterCreate EXCEPT !.emailStatus = "Skipped",
                                     !.email = "skipped by user"]
            ELSE afterCreate
    IN  IF o.account = "missing"
        THEN [initial EXCEPT !.critical = TRUE, !.error = "account not found"]
        ELSE IF o.token = "error"
        THEN [initial EXCEPT !.critical = TRUE, !.error = "invalid refresh token"]
        ELSE afterSend

runStagesFailureIsFatal(formData, o) ==
    LET initial == [critical |-> FALSE, error |-> NoError,
                    contactStatus |-> "Failed", emailStatus |-> "Skipped",
                    contactId |-> "null", contact |-> "empty",
                    email |-> "empty"]
    IN  IF o.create \in {"success", "duplicate"} /\ o.send = "success"
        THEN [initial EXCEPT !.contactStatus = "Success",
                             !.emailStatus = "Success",
                             !.contactId = "new", !.contact = "data",
                             !.email = "data"]
        ELSE [initial EXCEPT !.critical = TRUE, !.error = "stage failed"]

runStagesDuplicateIsFailure(formData, o) ==
    LET initial == [critical |-> FALSE, error |-> NoError,
                    contactStatus |-> "Failed", emailStatus |-> "Skipped",
                    contactId |-> "null",
                    contact |-> "empty", email |-> "empty"]
        afterCreate ==
            CASE o.create = "success" ->
                    [initial EXCEPT !.contactStatus = "Success",
                                    !.contactId = "new", !.contact = "data"]
              [] o.create = "duplicate" ->
                    [initial EXCEPT !.contact = "DUPLICATE_DATA"]
              [] o.create = "rejected" -> [initial EXCEPT !.contact = "data"]
              [] OTHER -> [initial EXCEPT !.contact = "error"]
        afterSend ==
            IF afterCreate.contactId # "null" /\ formData.sendEmail
            THEN CASE o.send = "success" ->
                        [afterCreate EXCEPT !.emailStatus = "Success",
                                            !.email = "data"]
                   [] o.send = "rejected" ->
                        [afterCreate EXCEPT !.emailStatus = "Failed",
                                            !.email = "data"]
                   [] OTHER ->
                        [afterCreate EXCEPT !.emailStatus = "Failed",
                                            !.email = "error"]
            ELSE IF ~formData.sendEmail
            THEN [afterCreate EXCEPT !.emailStatus = "Skipped",
                                     !.email = "skipped by user"]
            ELSE afterCreate
    IN  IF o.account = "missing"
        THEN [initial EXCEPT !.critical = TRUE, !.error = "account not found"]
        ELSE IF o.token = "error"
        THEN [initial EXCEPT !.critical = TRUE, !.error = "invalid refresh token"]
        ELSE IF formData.sendEmail /\ ~formData.fromMatch
        THEN [initial EXCEPT !.critical = TRUE, !.error = "from address not found"]
        ELSE afterSend

\* the try block of processEmail as a function of the remote answers
runStages(formData, o) ==
    LET initial == [critical |-> FALSE, error |-> NoError,
                    contactStatus |-> "Failed", emailStatus |-> "Skipped",
                    contactId |-> "null",
                    contact |-> "empty", email |-> "empty"]
        afterCreate ==
            CASE o.create = "success" ->
                    [initial EXCEPT !.contactStatus = "Success",
                                    !.contactId = "new", !.contact = "data"]
              [] o.create = "duplicate" ->
                    [initial EXCEPT !.contactStatus = "Success",
                                    !.contactId = "existing",
                                    !.contact = "DUPLICATE_DATA"]
              [] o.create = "rejected" -> [initial EXCEPT !.contact = "data"]
              [] OTHER -> [initial EXCEPT !.contact = "error"]
        afterSend ==
            IF afterCreate.contactId # "null" /\ formData.sendEmail
            THEN CASE o.send = "success" ->
                        [afterCreate EXCEPT !.emailStatus = "Success",
                                            !.email = "data"]
                   [] o.send = "rejected" ->
                        [afterCreate EXCEPT !.emailStatus = "Failed",
                                            !.email = "data"]
                   [] OTHER ->
                        [afterCreate EXCEPT !.emailStatus = "Failed",
                                            !.email = "error"]
            ELSE IF ~formData.sendEmail
            THEN [afterCreate EXCEPT !.emailStatus = "Skipped",
                                     !.email = "skipped by user"]
            ELSE afterCreate
    IN  IF o.account = "missing"
        THEN [initial EXCEPT !.critical = TRUE, !.error = "account not found"]
        ELSE IF o.token = "error"
        THEN [initial EXCEPT !.critical = TRUE, !.error = "invalid refresh token"]
        ELSE IF formData.sendEmail /\ ~formData.fromMatch
        THEN [initial EXCEPT !.critical = TRUE, !.error = "from address not found"]
        ELSE afterSend

finishEmailNoResultOnFatal(s, d, o) ==
    LET job == s.heap[d.job]
        r == runStages(job.formData, o)
        resultItem == [email |-> d.email,
                       contactStatus |-> r.contactStatus,
                       emailStatus |-> r.emailStatus,
                       liveStatus |-> IF job.formData.checkStatus
                                      THEN "Pending" ELSE "Skipped",
                       response |-> [contact |-> r.contact, email |-> r.email,
                                     live |-> "null"]]
        s1 == [s EXCEPT
                !.inflight = @ (-) SetToBag({d}),
                !.heap[d.job].status = IF r.critical THEN "failed" ELSE @,
                !.heap[d.job].error = IF r.critical THEN r.error ELSE @,
                !.heap[d.job].results =
                    IF r.critical THEN @ ELSE Append(@, resultItem),
                !.heap[d.job].currentIndex = @ + 1,
                !.jobs[d.key] = d.job]
    IN  scheduleNext(s1, d.key)

\* the catch and finally blocks of processEmail, for the invocation d
finishEmail(s, d, o) ==
    LET job == s.heap[d.job]
        r == runStages(job.formData, o)
        resultItem == [email |-> d.email,
                       contactStatus |-> r.contactStatus,
                       emailStatus |-> r.emailStatus,
                       liveStatus |-> IF job.formData.checkStatus
                                      THEN "Pending" ELSE "Skipped",
                       response |-> [contact |-> r.contact, email |-> r.email,
                                     live |-> "null"]]
        s1 == [s EXCEPT
                !.inflight = @ (-) SetToBag({d}),
                !.heap[d.job].status = IF r.critical THEN "failed" ELSE @,
                !.heap[d.job].error = IF r.critical THEN r.error ELSE @,
                !.heap[d.job].results = Append(@, resultItem),
                !.liveChecks =
                    IF job.formData.checkStatus /\ r.contactId # "null"
                    THEN @ \cup {[job |-> d.job,
                                  item |-> Len(job.results) + 1,
                                  contactId |-> r.contactId]}
                    ELSE @,
                !.heap[d.job].currentIndex = @ + 1,
                !.jobs[d.key] = d.job]
    IN  scheduleNext(s1, d.key)

\* ---------------------------------------------------------------- actions
StartsDispatch(s) == BagCardinality(s.inflight) > BagCardinality(inflight)

StartJobNoGuard(accountId, emails, delay, formData, platform) ==
    LET jobKey == getJobKey(accountId, platform)
        j == Len(heap) + 1
        s1 == [Store EXCEPT
                !.heap = Append(@, newJob(accountId, emails, delay,
                                          formData, platform)),
                !.jobs[jobKey] = j]
    IN  /\ lastOp' = [op |-> "startJob", key |-> jobKey]
        /\ Len(heap) < MaxJobs
        /\ BagCardinality(inflight) < MaxInFlight
        /\ Commit(processEmail(s1, jobKey))

StartJob(accountId, emails, delay, formData, platform) ==
    LET jobKey == getJobKey(accountId, platform)
        j == Len(heap) + 1
        s1 == [Store EXCEPT
                !.heap = Append(@, newJob(accountId, emails, delay,
                                          formData, platform)),
                !.jobs[jobKey] = j]
    IN  /\ lastOp' = [op |-> "startJob", key |-> jobKey]
        /\ IF jobs[jobKey] # NoJob /\ heap[jobs[jobKey]].status = "processing"
           THEN Commit(Store)
           ELSE /\ Len(heap) < MaxJobs
                /\ BagCardinality(inflight) < MaxInFlight
                /\ Commit(processEmail(s1, jobKey))

StopJobDeletesRecord(accountId, platform) ==
    LET jobKey == getJobKey(accountId, platform)
        s1 == clearTimers(Store, jobKey)
    IN  /\ lastOp' = [op |-> "stopJob", key |-> jobKey]
        /\ Commit([s1 EXCEPT !.jobs[jobKey] = NoJob])

StopJob(accountId, platform) ==
    LET jobKey == getJobKey(accountId, platform)
        s1 == clearTimers(Store, jobKey)
    IN  /\ lastOp' = [op |-> "stopJob", key |-> jobKey]
        /\ IF jobs[jobKey] # NoJob
           THEN Commit([s1 EXCEPT !.heap[jobs[jobKey]].status = "stopped"])
           ELSE Commit(s1)

PauseJobAnyStatus(accountId, platform) ==
    LET jobKey == getJobKey(accountId, platform)
        s1 == clearTimers(Store, jobKey)
    IN  /\ lastOp' = [op |-> "pauseJob", key |-> jobKey]
        /\ IF jobs[jobKey] # NoJob
           THEN Commit([s1 EXCEPT !.heap[jobs[jobKey]].status = "paused"])
           ELSE Commit(s1)

PauseJob(accountId, platform) ==
    LET jobKey == getJobKey(accountId, platform)
        s1 == clearTimers(Store, jobKey)
    IN  /\ lastOp' = [op |-> "pauseJob", key |-> jobKey]
        /\ IF jobs[jobKey] # NoJob /\ heap[jobs[jobKey]].status = "processing"
           THEN Commit([s1 EXCEPT !.heap[jobs[jobKey]].status = "paused"])
           ELSE Commit(s1)

ResumeJob(accountId, platform) ==
    LET jobKey == getJobKey(accountId, platform)
    IN  /\ lastOp' = [op |-> "resumeJob", key |-> jobKey]
        /\ IF jobs[jobKey] # NoJob /\ heap[jobs[jobKey]].status = "paused"
           THEN Commit(scheduleNext(
                    [Store EXCEPT !.heap[jobs[jobKey]].status = "processing"],
                    jobKey))
           ELSE Commit(Store)

\* the setTimeout callback of scheduleNext; t is the handle stored in the
\* timers map, or (stale) one that was overwritten there while still pending
TimerFires(t, stale) ==
    LET s0 == IF stale
              THEN [Store EXCEPT !.staleTimers = @ (-) SetToBag({t})]
              ELSE Store
        s2 == processEmail(clearTimers(s0, t.key), t.key)
    IN  /\ t # NoTimer
        /\ IF stale THEN BagIn(t, staleTimers) ELSE timers[t.key] = t
        /\ StartsDispatch(s2) => BagCardinality(inflight) < MaxInFlight
        /\ lastOp' = [op |-> "timer", key |-> t.key]
        /\ Commit(s2)

\* the setInterval callback of scheduleNext, for any interval alive for the key
\* the setInterval callback of scheduleNext, for any interval alive for the key
CountdownTickNoFloor(jobKey) ==
    /\ countdownIntervals[jobKey] \/ staleIntervals[jobKey] > 0
    /\ lastOp' = [op |-> "tick", key |-> jobKey]
    /\ IF jobs[jobKey] # NoJob
       THEN Commit([Store EXCEPT !.heap[jobs[jobKey]].countdown = @ - 1])
       ELSE Commit(Store)

CountdownTick(jobKey) ==
    /\ countdownIntervals[jobKey] \/ staleIntervals[jobKey] > 0
    /\ lastOp' = [op |-> "tick", key |-> jobKey]
    /\ IF jobs[jobKey] # NoJob /\ heap[jobs[jobKey]].countdown > 0
       THEN Commit([Store EXCEPT !.heap[jobs[jobKey]].countdown = @ - 1])
       ELSE Commit(Store)

\* the remote calls of the invocation d have settled with the answers o
DispatchSettles(d, o) ==
    /\ BagIn(d, inflight)
    /\ lastOp' = [op |-> "settle", key |-> d.key]
    /\ Commit(finishEmail(Store, d, o))

getStatusWithTimers(s) ==
    [k \in {x \in JobKeys : s.jobs[x] # NoJob} |->
        [status |-> s.heap[s.jobs[k]].status,
         processed |-> s.heap[s.jobs[k]].currentIndex,
         total |-> s.heap[s.jobs[k]].totalEmails,
         results |-> s.heap[s.jobs[k]].results,
         error |-> s.heap[s.jobs[k]].error,
         countdown |-> s.heap[s.jobs[k]].countdown,
         platform |-> s.heap[s.jobs[k]].platform,
         timer |-> s.timers[k]]]

\* the report getStatus builds: one entry for each key of the jobs map
getStatus(s) ==
    [k \in {x \in JobKeys : s.jobs[x] # NoJob} |->
        [status |-> s.heap[s.jobs[k]].status,
         processed |-> s.heap[s.jobs[k]].currentIndex,
         total |-> s.heap[s.jobs[k]].totalEmails,
         results |-> s.heap[s.jobs[k]].results,
         error |-> s.heap[s.jobs[k]].error,
         countdown |-> s.heap[s.jobs[k]].countdown,
         platform |-> s.heap[s.jobs[k]].platform]]

\* GET /api/jobs/status: the report is built and sent; nothing is assigned
GetStatus ==
    /\ lastOp' = [op |-> "getStatus", key |-> ""]
    /\ Commit(Store)

\* ---------------------------------------------------------------- live check
\* what the collaborators of the detached live check answer: the account
\* lookup, the token call, and the Emails history of the contact (the call
\* throws, the list is empty or absent, or the latest entry has this type)
CheckOutcomes == [account : {"found", "missing"},
                  token : {"ok", "error"},
                  history : {"throw", "none", "sent", "SENT", "bounced", "opened"}]

toLowerCase(type) == IF type = "SENT" THEN "sent" ELSE type

\* the body of the detached async function after its wait; write says whether
\* it assigns to the result item at all
runLiveCheck(v) ==
    IF v.account = "missing"
    THEN [write |-> FALSE, liveStatus |-> "Pending", live |-> "null"]
    ELSE IF v.token = "error" \/ v.history = "throw"
    THEN [write |-> TRUE, liveStatus |-> "Failed Check", live |-> "error"]
    ELSE IF v.history = "none"
    THEN [write |-> TRUE, liveStatus |-> "Not Found", live |-> "data"]
    ELSE IF toLowerCase(v.history) = "sent"
    THEN [write |-> TRUE, liveStatus |-> "Sent", live |-> "data"]
    ELSE IF toLowerCase(v.history) = "bounced"
    THEN [write |-> TRUE, liveStatus |-> "Bounced", live |-> "data"]
    ELSE [write |-> TRUE, liveStatus |-> v.history, live |-> "data"]

LiveCheckSettlesOnMapRecord(c, v) ==
    LET r == runLiveCheck(v)
        job == heap[c.job]
        jobKey == getJobKey(job.accountId, job.platform)
    IN  /\ c \in liveChecks
        /\ lastOp' = [op |-> "liveCheck", key |-> jobKey]
        /\ Commit([Store EXCEPT
                    !.liveChecks = @ \ {c},
                    !.heap[jobs[jobKey]].results[c.item] =
                        IF r.write
                        THEN [@ EXCEPT !.liveStatus = r.liveStatus,
                                       !.response.live = r.live]
                        ELSE @])

\* the live check c has waited and its remote calls have settled with the
\* answers v; it holds the result item it was launched with (itemToUpdate),
\* which is element c.item of the results of the record c.job
LiveCheckSettles(c, v) ==
    LET r == runLiveCheck(v)
        job == heap[c.job]
    IN  /\ c \in liveChecks
        /\ lastOp' = [op |-> "liveCheck",
                      key |-> getJobKey(job.accountId, job.platform)]
        /\ Commit([Store EXCEPT
                    !.liveChecks = @ \ {c},
                    !.heap[c.job].results[c.item] =
                        IF r.write
                        THEN [@ EXCEPT !.liveStatus = r.liveStatus,
                                       !.response.live = r.live]
                        ELSE @])

\* ---------------------------------------------------------------- tokens
\* A caller enters getAccessToken of the module copy for the account id.  A
\* cached token that has not expired is returned at once.  With a lock set
\* the caller awaits the promise the lock holds.  Otherwise the async
\* function runs up to its await, which posts the refresh request, the lock
\* is set to its promise, and the caller awaits that promise.  The token a
\* refresh returns is named by the number of its promise.
GetAccessToken(copy, id) ==
    LET cachedToken == accessTokenCache[copy][id]
        r == Len(refreshPromises) + 1
    IN  /\ lastOp' = [op |-> "getAccessToken", key |-> id]
        /\ UNCHANGED jobVars
        /\ UNCHANGED clientVars
        /\ UNCHANGED storeVars
        /\ accessTokenCache' = accessTokenCache
        /\ IF cachedToken # NoCache /\ cachedToken.fresh
           THEN /\ tokenReturn' = [copy |-> copy, id |-> id, promise |-> 0,
                                   result |-> cachedToken.token]
                /\ UNCHANGED <<tokenRefreshLocks, refreshPromises, tokenWaiters>>
           ELSE IF tokenRefreshLocks[copy][id] # NoLock
           THEN /\ BagCardinality(tokenWaiters) < MaxWaiters
                /\ tokenWaiters' = tokenWaiters (+)
                        SetToBag({[copy |-> copy, id |-> id,
                                   promise |-> tokenRefreshLocks[copy][id]]})
                /\ UNCHANGED <<tokenRefreshLocks, refreshPromises, tokenReturn>>
           ELSE /\ Len(refreshPromises) < MaxRefresh
                /\ BagCardinality(tokenWaiters) < MaxWaiters
                /\ refreshPromises' = Append(refreshPromises,
                        [copy |-> copy, id |-> id, state |-> "pending"])
                /\ tokenRefreshLocks' =
                        [tokenRefreshLocks EXCEPT ![copy][id] = r]
                /\ tokenWaiters' = tokenWaiters (+)
                        SetToBag({[copy |-> copy, id |-> id, promise |-> r]})
                /\ tokenReturn' = tokenReturn

\* the refresh request of promise r has been answered: the try block stores
\* the token in the cache of its module, the catch block throws, and the
\* finally block deletes the lock of the account id in both cases
RefreshSettles(r, ok) ==
    LET p == refreshPromises[r]
    IN  /\ r \in 1..Len(refreshPromises)
        /\ p.state = "pending"
        /\ lastOp' = [op |-> "refresh", key |-> p.id]
        /\ UNCHANGED jobVars
        /\ UNCHANGED clientVars
        /\ UNCHANGED storeVars
        /\ refreshPromises' =
                [refreshPromises EXCEPT ![r].state = IF ok THEN "token" ELSE "error"]
        /\ accessTokenCache' =
                IF ok
                THEN [accessTokenCache EXCEPT
                        ![p.copy][p.id] = [token |-> r, fresh |-> TRUE]]
                ELSE accessTokenCache
        /\ tokenRefreshLocks' = [tokenRefreshLocks EXCEPT ![p.copy][p.id] = NoLock]
        /\ UNCHANGED <<tokenWaiters, tokenReturn>>

\* a caller that awaits a settled promise resumes: it returns the token of
\* the promise, or the promise's error is thrown to it (result -1)
WaiterResumes(w) ==
    LET p == refreshPromises[w.promise]
    IN  /\ BagIn(w, tokenWaiters)
        /\ p.state # "pending"
        /\ lastOp' = [op |-> "tokenReturn", key |-> w.id]
        /\ UNCHANGED jobVars
        /\ UNCHANGED clientVars
        /\ UNCHANGED storeVars
        /\ tokenWaiters' = tokenWaiters (-) SetToBag({w})
        /\ tokenReturn' = [copy |-> w.copy, id |-> w.id, promise |-> w.promise,
                           result |-> IF p.state = "token" THEN w.promise ELSE -1]
        /\ UNCHANGED <<accessTokenCache, tokenRefreshLocks, refreshPromises>>

\* time passes beyond expires_at of the cached token
TokenExpires(copy, id) ==
    /\ accessTokenCache[copy][id] # NoCache
    /\ accessTokenCache[copy][id].fresh
    /\ lastOp' = [op |-> "expire", key |-> id]
    /\ UNCHANGED jobVars
    /\ UNCHANGED clientVars
    /\ UNCHANGED storeVars
    /\ accessTokenCache' = [accessTokenCache EXCEPT ![copy][id].fresh = FALSE]
    /\ UNCHANGED <<tokenRefreshLocks, refreshPromises, tokenWaiters, tokenReturn>>

\* ---------------------------------------------------------------- client
\* BulkJobManager of the client.  processRefs[a] is "null", or the handle of
\* a timeout that is pending, or the handle of one that has fired.
ClientStore == [accountStates |-> accountStates, processRefs |-> processRefs,
                leakedTimeouts |-> leakedTimeouts, requests |-> requests]

ClientCommit(c) ==
    /\ \A a \in AccountIds : c.leakedTimeouts[a] <= MaxLeaked
    /\ accountStates' = c.accountStates
    /\ processRefs' = c.processRefs
    /\ leakedTimeouts' = c.leakedTimeouts
    /\ requests' = c.requests
    /\ UNCHANGED jobVars
    /\ UNCHANGED tokenVars
    /\ UNCHANGED storeVars

\* clearTimeout(processRefs[a]); processRefs[a] = null, when the ref is set
clearProcessRef(c, a) == [c EXCEPT !.processRefs[a] = "null"]

scheduleNextEmail(c, a) ==
    LET state == c.accountStates[a] IN
    IF ~state.isProcessing \/ state.isPaused THEN c
    ELSE IF state.currentEmailIndex >= Len(state.emailsToProcess)
    THEN [c EXCEPT !.accountStates[a].isProcessing = FALSE]
    ELSE [c EXCEPT
            !.leakedTimeouts[a] =
                IF c.processRefs[a] = "pending" THEN @ + 1 ELSE @,
            !.processRefs[a] = "pending"]

clientStopJob(c, a) ==
    [clearProcessRef(c, a) EXCEPT !.accountStates[a].isProcessing = FALSE,
                                  !.accountStates[a].isPaused = FALSE]

\* startJob(accountId, state) with the list the emails field splits into
ClientStartJob(a, emails, fromOk) ==
    /\ lastOp' = [op |-> "client.startJob", key |-> a]
    /\ IF emails = <<>>
       THEN ClientCommit(ClientStore)
       ELSE ClientCommit(scheduleNextEmail(
                [ClientStore EXCEPT !.accountStates[a] =
                    [emailsToProcess |-> emails, results |-> <<>>,
                     isProcessing |-> TRUE, isPaused |-> FALSE,
                     currentEmailIndex |-> 0, fromOk |-> fromOk]], a))

ClientPauseJob(a) ==
    /\ lastOp' = [op |-> "client.pauseJob", key |-> a]
    /\ ClientCommit(clearProcessRef(
            [ClientStore EXCEPT !.accountStates[a].isPaused = TRUE], a))

ClientResumeJob(a) ==
    /\ lastOp' = [op |-> "client.resumeJob", key |-> a]
    /\ ClientCommit(scheduleNextEmail(
            [ClientStore EXCEPT !.accountStates[a].isPaused = FALSE], a))

ClientStopJob(a) ==
    /\ lastOp' = [op |-> "client.stopJob", key |-> a]
    /\ ClientCommit(clientStopJob(ClientStore, a))

\* a timeout of scheduleNextEmail fires and runs processEmail up to its
\* await: without a from address the job is stopped, otherwise the request
\* for the item at the cursor is sent
ClientTimerFires(a, leaked) ==
    LET c0 == IF leaked
              THEN [ClientStore EXCEPT !.leakedTimeouts[a] = @ - 1]
              ELSE [ClientStore EXCEPT !.processRefs[a] = "fired"]
        state == accountStates[a]
    IN  /\ IF leaked THEN leakedTimeouts[a] > 0 ELSE processRefs[a] = "pending"
        /\ lastOp' = [op |-> "client.timer", key |-> a]
        /\ IF ~state.fromOk
           THEN ClientCommit(clientStopJob(c0, a))
           ELSE /\ BagCardinality(requests) < MaxInFlight
                /\ ClientCommit([c0 EXCEPT !.requests = @ (+) SetToBag({
                        [account |-> a,
                         email |-> ItemAt(state.emailsToProcess,
                                          state.currentEmailIndex),
                         index |-> state.currentEmailIndex]})])

\* the request q is answered (ok) or fails: the result is appended to the
\* account's current state and the cursor of that state advanced
ClientRequestSettles(q, ok) ==
    LET resultItem == [email |-> q.email,
                       contactStatus |-> IF ok THEN "Success" ELSE "Failed",
                       emailStatus |-> IF ok THEN "Success" ELSE "Failed"]
    IN  /\ BagIn(q, requests)
        /\ lastOp' = [op |-> "client.settle", key |-> q.account]
        /\ ClientCommit(scheduleNextEmail(
                [ClientStore EXCEPT
                    !.requests = @ (-) SetToBag({q}),
                    !.accountStates[q.account].results = Append(@, resultItem),
                    !.accountStates[q.account].currentEmailIndex = @ + 1],
                q.account))

\* ---------------------------------------------------------------- timer store
\* The timer actions of the client's useBulkContactsStore; now is Date.now().
StoreCommit(key, timer) ==
    /\ timerStore' = [timerStore EXCEPT ![key] = timer]
    /\ now' = now
    /\ UNCHANGED jobVars
    /\ UNCHANGED tokenVars
    /\ UNCHANGED clientVars

startTimer(key) ==
    /\ lastOp' = [op |-> "startTimer", key |-> key]
    /\ StoreCommit(key, [startTime |-> now, endTime |-> Null,
                         totalPausedTime |-> 0, lastPauseTime |-> Null])

pauseTimer(key) ==
    LET timer == timerStore[key]
    IN  /\ lastOp' = [op |-> "pauseTimer", key |-> key]
        /\ IF timer = NoTimerData \/ timer.lastPauseTime # Null
           THEN StoreCommit(key, timer)
           ELSE StoreCommit(key, [timer EXCEPT !.lastPauseTime = now])

resumeTimer(key) ==
    LET timer == timerStore[key]
        pauseDuration == now - timer.lastPauseTime
    IN  /\ lastOp' = [op |-> "resumeTimer", key |-> key]
        /\ IF timer = NoTimerData \/ timer.lastPauseTime = Null
           THEN StoreCommit(key, timer)
           ELSE StoreCommit(key,
                    [timer EXCEPT !.lastPauseTime = Null,
                                  !.totalPausedTime = @ + pauseDuration])

stopTimer(key) ==
    LET timer == timerStore[key]
        extraPaused == IF timer.lastPauseTime # Null
                       THEN now - timer.lastPauseTime ELSE 0
    IN  /\ lastOp' = [op |-> "stopTimer", key |-> key]
        /\ IF timer = NoTimerData
           THEN StoreCommit(key, timer)
           ELSE StoreCommit(key,
                    [timer EXCEPT !.endTime = now,
                                  !.lastPauseTime = Null,
                                  !.totalPausedTime = @ + extraPaused])

\* the clock moves on
ClockAdvances ==
    /\ now < MaxClock
    /\ now' = now + 1
    /\ lastOp' = [op |-> "clock", key |-> ""]
    /\ UNCHANGED <<timerStore, jobVars, tokenVars, clientVars>>

\* elapsedTime of the page, before it is floored to seconds and clamped
activeTime(timer, currentTick) ==
    LET end == IF timer.endTime # Null THEN timer.endTime
               ELSE IF timer.lastPauseTime # Null THEN timer.lastPauseTime
               ELSE currentTick
    IN  end - timer.startTime - timer.totalPausedTime

\* ---------------------------------------------------------------- inputs
ActiveTimers == {timers[k] : k \in JobKeys} \cup BagToSet(staleTimers)

PlainForm == [sendEmail |-> FALSE, checkStatus |-> FALSE, fromMatch |-> TRUE]

AllOk == [account |-> "found", token |-> "ok", create |-> "success",
          send |-> "success"]

\* the answers that take the two control paths of processEmail: every remote
\* call answers, or the account lookup finds nothing (job-fatal)
SchedOutcomes == {AllOk, [AllOk EXCEPT !.account = "missing"]}

Next ==
    \/ \E emails \in EmailLists(MaxEmails), delay \in 0..MaxDelay :
            StartJob("1", emails, delay, PlainForm, "crm")
    \/ StopJob("1", "crm")
    \/ PauseJob("1", "crm")
    \/ ResumeJob("1", "crm")
    \/ \E t \in ActiveTimers, stale \in BOOLEAN : TimerFires(t, stale)
    \/ \E k \in JobKeys : CountdownTick(k)
    \/ \E d \in BagToSet(inflight), o \in SchedOutcomes : DispatchSettles(d, o)

Spec == Init /\ [][Next]_vars

\* ------------------------------------------------- a job that is left alone
\* A job that sends mail, with every answer the remote calls can give, and
\* with no pauseJob, resumeJob or stopJob.  The event loop runs every timer
\* callback that is due and every continuation whose promise has settled.
SendForm == [sendEmail |-> TRUE, checkStatus |-> FALSE, fromMatch |-> TRUE]

NextRun ==
    \/ \E emails \in EmailLists(MaxEmails), delay \in 0..MaxDelay :
            StartJob("1", emails, delay, SendForm, "crm")
    \/ \E t \in ActiveTimers, stale \in BOOLEAN : TimerFires(t, stale)
    \/ \E k \in JobKeys : CountdownTick(k)
    \/ \E d \in BagToSet(inflight), o \in Outcomes : DispatchSettles(d, o)

FairRun ==
    /\ WF_vars(\E t \in ActiveTimers, stale \in BOOLEAN : TimerFires(t, stale))
    /\ WF_vars(\E d \in BagToSet(inflight), o \in Outcomes : DispatchSettles(d, o))

SpecRun == Init /\ [][NextRun]_vars /\ FairRun

\* ------------------------------------------------- the create and send stages
\* A job that sends mail and is paused, resumed and stopped at any time, with
\* the answers the Contacts and send_mail calls can give once account and
\* token are there.  The client starts a job for the key only while no
\* dispatch of an earlier one is awaiting its remote calls (Spec has the
\* starts that overlap a dispatch).
StageFailures ==
    {[AllOk EXCEPT !.create = "rejected"], [AllOk EXCEPT !.create = "throw"],
     [AllOk EXCEPT !.send = "rejected"], [AllOk EXCEPT !.send = "throw"]}

StageOutcomes == {AllOk, [AllOk EXCEPT !.create = "duplicate"]} \cup StageFailures

NextStages ==
    \/ \E emails \in EmailLists(MaxEmails) :
            /\ inflight = EmptyBag
            /\ StartJob("1", emails, MaxDelay, SendForm, "crm")
    \/ StopJob("1", "crm")
    \/ PauseJob("1", "crm")
    \/ ResumeJob("1", "crm")
    \/ \E t \in ActiveTimers, stale \in BOOLEAN : TimerFires(t, stale)
    \/ \E k \in JobKeys : CountdownTick(k)
    \/ \E d \in BagToSet(inflight), o \in StageOutcomes : DispatchSettles(d, o)

SpecStages == Init /\ [][NextStages]_vars

\* ------------------------------------------------- jobs with the live check
\* A job that sends mail and asks for the live check, started and stopped at
\* any time.  The create call succeeds or is rejected (no contact id).  The
\* event loop runs every timer callback that is due and every continuation
\* whose promise has settled.
CheckForm == [sendEmail |-> TRUE, checkStatus |-> TRUE, fromMatch |-> TRUE]

VerifyOutcomes == {AllOk, [AllOk EXCEPT !.create = "rejected"]}

\* one answer of the live check's collaborators for each path of its body:
\* no account, no token, and every answer of the history fetch
CheckAnswers ==
    {v \in CheckOutcomes :
        \/ v.account = "found" /\ v.token = "ok"
        \/ v.account = "missing" /\ v.token = "ok" /\ v.history = "sent"
        \/ v.account = "found" /\ v.token = "error" /\ v.history = "sent"}

NextVerify ==
    \/ \E emails \in EmailLists(MaxEmails) :
            StartJob("1", emails, MaxDelay, CheckForm, "crm")
    \/ StopJob("1", "crm")
    \/ \E t \in ActiveTimers, stale \in BOOLEAN : TimerFires(t, stale)
    \/ \E k \in JobKeys : CountdownTick(k)
    \/ \E d \in BagToSet(inflight), o \in VerifyOutcomes : DispatchSettles(d, o)
    \/ \E c \in liveChecks, v \in CheckAnswers : LiveCheckSettles(c, v)

FairVerify ==
    /\ WF_vars(\E t \in ActiveTimers, stale \in BOOLEAN : TimerFires(t, stale))
    /\ WF_vars(\E d \in BagToSet(inflight), o \in VerifyOutcomes :
                    DispatchSettles(d, o))
    /\ WF_vars(\E c \in liveChecks, v \in CheckAnswers : LiveCheckSettles(c, v))

SpecVerify == Init /\ [][NextVerify]_vars /\ FairVerify

\* ------------------------------------------------- the two keys of an account
\* Jobs for the CRM and for the Bigin platform of the same account, with
\* different item lists, under every route; the CRM job asks for the live
\* check; every remote call answers.  Each key gets one job (Spec has the
\* restarts of a key).
KeysEmails(platform) ==
    IF platform = "crm" THEN SubSeq(AllEmails, 1, MaxEmails)
    ELSE SubSeq(AllEmails, MaxEmails + 1, MaxEmails + 1)

KeysForm(platform) == IF platform = "crm" THEN CheckForm ELSE SendForm

KeysAnswer == [account |-> "found", token |-> "ok", history |-> "sent"]

NextKeys ==
    \/ \E p \in Platforms :
            /\ jobs[getJobKey("1", p)] = NoJob
            /\ StartJob("1", KeysEmails(p), MaxDelay, KeysForm(p), p)
    \/ \E p \in Platforms : StopJob("1", p)
    \/ \E p \in Platforms : PauseJob("1", p)
    \/ \E p \in Platforms : ResumeJob("1", p)
    \/ GetStatus
    \/ \E t \in ActiveTimers, stale \in BOOLEAN : TimerFires(t, stale)
    \/ \E k \in JobKeys : CountdownTick(k)
    \/ \E d \in BagToSet(inflight) : DispatchSettles(d, AllOk)
    \/ \E c \in liveChecks : LiveCheckSettles(c, KeysAnswer)

SpecKeys == Init /\ [][NextKeys]_vars

\* ------------------------------------------------- the forms of the send stage
\* Jobs that run undisturbed with every setting of formData.sendEmail and of
\* the from address lookup, and every answer of the account lookup, the token
\* call and the Contacts and send_mail calls.  No live check is asked for.
StageForms == {f \in FormDatas : ~f.checkStatus}

NextForms ==
    \/ \E emails \in EmailLists(MaxEmails), formData \in StageForms :
            /\ inflight = EmptyBag
            /\ StartJob("1", emails, MaxDelay, formData, "crm")
    \/ \E t \in ActiveTimers, stale \in BOOLEAN : TimerFires(t, stale)
    \/ \E k \in JobKeys : CountdownTick(k)
    \/ \E d \in BagToSet(inflight), o \in Outcomes : DispatchSettles(d, o)

SpecForms == Init /\ [][NextForms]_vars

\* ------------------------------------------------- the delays a request gives
\* The start route hands the delay of the request body to startJob as it is,
\* and the delay field of the pages keeps what parseInt makes of the text
\* typed: a whole number below zero is a delay a job can be started with.
Delays == -1..MaxDelay

NextDelays ==
    \/ \E emails \in EmailLists(MaxEmails), delay \in Delays :
            /\ inflight = EmptyBag
            /\ StartJob("1", emails, delay, PlainForm, "crm")
    \/ PauseJob("1", "crm")
    \/ ResumeJob("1", "crm")
    \/ \E t \in ActiveTimers, stale \in BOOLEAN : TimerFires(t, stale)
    \/ \E k \in JobKeys : CountdownTick(k)
    \/ \E d \in BagToSet(inflight) : DispatchSettles(d, AllOk)

SpecDelays == Init /\ [][NextDelays]_vars

\* ------------------------------------------------- the token provider
\* Callers of both copies of getAccessToken (dispatches and live checks call
\* the job manager's, route handlers call the routes module's) arrive at any
\* time; refresh requests succeed or fail; cached tokens expire.
NextToken ==
    \/ \E copy \in TokenCopies, id \in AccountIds : GetAccessToken(copy, id)
    \/ \E r \in 1..Len(refreshPromises), ok \in BOOLEAN : RefreshSettles(r, ok)
    \/ \E w \in BagToSet(tokenWaiters) : WaiterResumes(w)
    \/ \E copy \in TokenCopies, id \in AccountIds : TokenExpires(copy, id)

SpecToken == Init /\ [][NextToken]_vars

\* ------------------------------------------------- pacing under fairness
\* One list and one delay; the job is stopped, paused and resumed at any
\* time, and started while no dispatch is awaiting its remote calls (Spec has
\* the starts that overlap a dispatch).  The event loop
\* runs every timer callback that is due and every continuation whose
\* remote calls have settled.
NextPace ==
    \/ /\ inflight = EmptyBag
       /\ StartJob("1", SubSeq(AllEmails, 1, MaxEmails), MaxDelay, PlainForm, "crm")
    \/ StopJob("1", "crm")
    \/ PauseJob("1", "crm")
    \/ ResumeJob("1", "crm")
    \/ \E t \in ActiveTimers, stale \in BOOLEAN : TimerFires(t, stale)
    \/ \E k \in JobKeys : CountdownTick(k)
    \/ \E d \in BagToSet(inflight), o \in SchedOutcomes : DispatchSettles(d, o)

FairPace ==
    /\ WF_vars(\E t \in ActiveTimers, stale \in BOOLEAN : TimerFires(t, stale))
    /\ WF_vars(\E d \in BagToSet(inflight), o \in SchedOutcomes :
                    DispatchSettles(d, o))

SpecPace == Init /\ [][NextPace]_vars /\ FairPace

\* ------------------------------------------------- the client's bulk jobs
\* The page calls startJob, pauseJob, resumeJob and stopJob of the
\* BulkJobManager at any time; timeouts fire and requests are answered.
NextClient ==
    \/ \E emails \in EmailLists(MaxEmails), fromOk \in BOOLEAN :
            ClientStartJob("1", emails, fromOk)
    \/ ClientPauseJob("1")
    \/ ClientResumeJob("1")
    \/ ClientStopJob("1")
    \/ \E leaked \in BOOLEAN : ClientTimerFires("1", leaked)
    \/ \E q \in BagToSet(requests), ok \in BOOLEAN : ClientRequestSettles(q, ok)

SpecClient == Init /\ [][NextClient]_vars

\* ------------------------------------------------- the client's timers
\* The page calls the timer actions in any order while the clock moves on.
NextStore ==
    \/ startTimer("crm-1")
    \/ pauseTimer("crm-1")
    \/ resumeTimer("crm-1")
    \/ stopTimer("crm-1")
    \/ ClockAdvances

SpecStore == Init /\ [][NextStore]_vars

\* ---------------------------------------------------------------- claims
Live == {j \in 1..Len(heap) : heap[j] # Freed}

HasJob(k) == jobs[k] # NoJob

JobOf(k) == heap[jobs[k]]

\* the invocations of processEmail in flight for a key / for a record
InFlightOfKey(k) ==
    BagCardinality([d \in {e \in BagToSet(inflight) : e.key = k} |-> inflight[d]])

InFlightOfJob(j) ==
    BagCardinality([d \in {e \in BagToSet(inflight) : e.job = j} |-> inflight[d]])

InFlightOfItem(j, email) ==
    BagCardinality([d \in {e \in BagToSet(inflight) :
                              e.job = j /\ e.email = email} |-> inflight[d]])

ResultsOfItem(j, email) ==
    Cardinality({i \in 1..Len(heap[j].results) : heap[j].results[i].email = email})

ControlUnchanged ==
    UNCHANGED <<heap, jobs, timers, countdownIntervals, staleTimers,
                staleIntervals, inflight, liveChecks>>

\* C1: for every job key at most one dispatch (a processEmail run, from its
\* entry until it appends its result) is in flight at any time.
C1_OneDispatchPerKey == \A k \in JobKeys : InFlightOfKey(k) <= 1

\* C2: for every job record, results[k].email = emails[k] for every
\* k < len(results): results are appended in input order, none twice and
\* none skipped.
C2_ResultsInInputOrder ==
    \A j \in Live : \A i \in 1..Len(heap[j].results) :
        /\ i <= Len(heap[j].emails)
        /\ heap[j].results[i].email = heap[j].emails[i]

\* C3: startJob for a key whose record is processing is a no-op: the record
\* (cursor, results, items, status, countdown), the job map, the timers and
\* the dispatches in flight are all unchanged.
C3_StartOnProcessingIsNoOp ==
    [][\A k \in JobKeys :
        (/\ lastOp'.op = "startJob" /\ lastOp'.key = k
         /\ HasJob(k) /\ JobOf(k).status = "processing")
        => ControlUnchanged]_vars

C3_Witness ==
    /\ lastOp = [op |-> "startJob", key |-> "crm-1"]
    /\ HasJob("crm-1")
    /\ JobOf("crm-1").status = "processing"
    /\ JobOf("crm-1").currentIndex > 0

\* C6: for every job record, len(results) = currentIndex in every state
\* between steps of the scheduler.
C6_ResultsMatchCursor ==
    \A j \in Live : Len(heap[j].results) = heap[j].currentIndex

C6_Witness ==
    /\ lastOp.op = "settle"
    /\ \E j \in Live : heap[j].status = "failed" /\ heap[j].currentIndex >= 2

\* C7: for every job record 0 <= currentIndex <= len(emails), also for a job
\* started with an empty list, and currentIndex never decreases in a record.
C7_CursorWithinItems ==
    [][\A j \in 1..Len(heap) :
        heap'[j] # Freed =>
            /\ 0 <= heap'[j].currentIndex
            /\ heap'[j].currentIndex <= Len(heap'[j].emails)
            /\ heap'[j].currentIndex >= heap[j].currentIndex]_vars

\* C5: once startJob has replaced the record under a key, the job map holds
\* the new record until the next startJob: the map entry of a key is changed
\* by startJob only.
C5_MapChangedByStartOnly ==
    [][\A k \in JobKeys :
        jobs'[k] # jobs[k] => lastOp' = [op |-> "startJob", key |-> k]]_vars

\* C4: startJob for a key with no record or a record that is not processing
\* installs a new record (cursor 0, no results, processing) and enters the
\* dispatch of items[0] in the same step; a dispatch of any later item is
\* entered only by the firing of a pacing timer that was armed for the
\* record's delay.
C4_StartDispatchesFirstItem ==
    [][/\ \A k \in JobKeys :
            (/\ lastOp'.op = "startJob" /\ lastOp'.key = k
             /\ ~(HasJob(k) /\ JobOf(k).status = "processing"))
            => /\ jobs'[k] = Len(heap) + 1
               /\ heap'[jobs'[k]].currentIndex = 0
               /\ heap'[jobs'[k]].results = <<>>
               /\ heap'[jobs'[k]].status = "processing"
               /\ BagIn([key |-> k, job |-> jobs'[k],
                         email |-> ItemAt(heap'[jobs'[k]].emails, 0),
                         index |-> 0], inflight')
       /\ \A d \in BagToSet(inflight') :
            (CopiesIn(d, inflight') > CopiesIn(d, inflight) /\ d.index > 0)
            => \E t \in ActiveTimers, stale \in BOOLEAN :
                    /\ TimerFires(t, stale)
                    /\ t.delay = heap[d.job].delay]_vars

\* C8 as stated: while a record stays paused, its cursor does not advance and
\* no result is appended.
C8_PausedNeverAdvances ==
    [][\A j \in 1..Len(heap) :
        (heap[j].status = "paused" /\ heap'[j].status = "paused")
        => /\ heap'[j].currentIndex = heap[j].currentIndex
           /\ heap'[j].results = heap[j].results]_vars

\* C8 amended: while a record stays paused no dispatch is entered for it, and
\* its cursor and results change only when a dispatch that was already in
\* flight settles, which appends one result and advances the cursor by one;
\* with no dispatch in flight they do not change.
C8_PausedOnlyInFlightLands ==
    [][\A j \in 1..Len(heap) :
        (heap[j].status = "paused" /\ heap'[j].status = "paused")
        => /\ \A d \in BagToSet(inflight') :
                d.job = j => CopiesIn(d, inflight') <= CopiesIn(d, inflight)
           /\ \/ /\ heap'[j].currentIndex = heap[j].currentIndex
                 /\ heap'[j].results = heap[j].results
              \/ /\ lastOp'.op = "settle"
                 /\ InFlightOfJob(j) > 0
                 /\ InFlightOfJob(j)' = InFlightOfJob(j) - 1
                 /\ heap'[j].currentIndex = heap[j].currentIndex + 1
                 /\ Len(heap'[j].results) = Len(heap[j].results) + 1
                 /\ SubSeq(heap'[j].results, 1, Len(heap[j].results))
                        = heap[j].results]_vars

C8_Witness ==
    /\ lastOp.op = "settle"
    /\ HasJob("crm-1")
    /\ JobOf("crm-1").status = "paused"
    /\ JobOf("crm-1").currentIndex = 1
    /\ JobOf("crm-1").totalEmails = 2
    /\ inflight = EmptyBag

\* C9: pauseJob on a key whose record is not processing, or that has no
\* record, leaves status, cursor and results unchanged; on a processing record
\* it sets the status to paused and changes neither cursor nor results.
C9_PauseEffect ==
    [][\A k \in JobKeys :
        (lastOp'.op = "pauseJob" /\ lastOp'.key = k)
        => /\ jobs' = jobs
           /\ Len(heap') = Len(heap)
           /\ HasJob(k) =>
                /\ heap'[jobs[k]].currentIndex = JobOf(k).currentIndex
                /\ heap'[jobs[k]].results = JobOf(k).results
                /\ heap'[jobs[k]].status =
                     IF JobOf(k).status = "processing"
                     THEN "paused" ELSE JobOf(k).status]_vars

C9_Witness ==
    /\ lastOp = [op |-> "pauseJob", key |-> "crm-1"]
    /\ HasJob("crm-1")
    /\ JobOf("crm-1").status = "paused"
    /\ JobOf("crm-1").currentIndex = 1

DispatchedAtMostOnce ==
    \A j \in 1..Len(heap) : \A i \in 1..Len(heap[j].emails) :
        InFlightOfItem(j, heap[j].emails[i])
            + ResultsOfItem(j, heap[j].emails[i]) <= 1

\* C10: resumeJob on a record that is not paused changes nothing; on a paused
\* record it sets the status to processing and dispatching goes on from
\* items[cursor]: over the life of a record no item is dispatched more than
\* once (each dispatch of an item is in flight or has left one result).
C10_ResumeNeverRedispatches ==
    [][/\ \A k \in JobKeys :
            (lastOp'.op = "resumeJob" /\ lastOp'.key = k)
            => IF HasJob(k) /\ JobOf(k).status = "paused"
               THEN heap'[jobs[k]].status \in {"processing", "completed"}
               ELSE ControlUnchanged
       /\ DispatchedAtMostOnce']_vars

\* C11: stopJob on a processing or paused record sets its status to stopped
\* and leaves its results and cursor unchanged in that step; and no step
\* removes a key from the job map: a key that has a record keeps having one.
C11_StopEffect ==
    [][/\ \A k \in JobKeys :
            (/\ lastOp'.op = "stopJob" /\ lastOp'.key = k
             /\ HasJob(k) /\ JobOf(k).status \in {"processing", "paused"})
            => /\ jobs'[k] = jobs[k]
               /\ heap'[jobs[k]].status = "stopped"
               /\ heap'[jobs[k]].results = JobOf(k).results
               /\ heap'[jobs[k]].currentIndex = JobOf(k).currentIndex
       /\ \A k \in JobKeys : HasJob(k) => jobs'[k] # NoJob]_vars

C11_Witness ==
    /\ lastOp = [op |-> "stopJob", key |-> "crm-1"]
    /\ HasJob("crm-1")
    /\ JobOf("crm-1").status = "stopped"
    /\ JobOf("crm-1").error = NoError
    /\ JobOf("crm-1").currentIndex = 1
    /\ JobOf("crm-1").totalEmails = 2
    /\ Len(JobOf("crm-1").results) = 1

\* C12: once a record's status is completed, failed or stopped, the status of
\* that record never changes again, whatever step is taken (pause, resume,
\* stop, a timer firing, an in-flight dispatch settling).
C12_TerminalStatusIsFinal ==
    [][\A j \in 1..Len(heap) :
        (heap[j].status \in {"completed", "failed", "stopped"}
            /\ heap'[j] # Freed)
        => heap'[j].status = heap[j].status]_vars

\* C13: once the record of a key is completed or failed, every step other
\* than a startJob for that key leaves the key's record in place with the
\* same cursor and the same results, and enters no dispatch for the key.
C13_FinishedRecordIsFrozen ==
    [][\A k \in JobKeys :
        (/\ HasJob(k) /\ JobOf(k).status \in {"completed", "failed"}
         /\ lastOp' # [op |-> "startJob", key |-> k])
        => /\ jobs'[k] = jobs[k]
           /\ heap'[jobs[k]].currentIndex = JobOf(k).currentIndex
           /\ heap'[jobs[k]].results = JobOf(k).results
           /\ \A d \in BagToSet(inflight') :
                d.key = k => CopiesIn(d, inflight') <= CopiesIn(d, inflight)]_vars

\* C14: a started job that is never paused or stopped and whose dispatches
\* hit no job-fatal error eventually is completed with exactly one result per
\* item, given that timers fire and remote calls settle (a job-fatal error
\* ends it as failed instead).
C14_RunsToCompletion ==
    (HasJob("crm-1") /\ JobOf("crm-1").status = "processing")
    ~> (HasJob("crm-1") /\
          \/ JobOf("crm-1").status = "failed"
          \/ /\ JobOf("crm-1").status = "completed"
             /\ Len(JobOf("crm-1").results) = Len(JobOf("crm-1").emails))

\* C15: when the account lookup of a dispatch finds no account, the record's
\* status becomes failed with its error set, no result is appended for the
\* item, and no dispatch is entered.
C15_AccountMissingIsFatal ==
    [][\A d \in BagToSet(inflight) :
        DispatchSettles(d, [AllOk EXCEPT !.account = "missing"])
        => /\ heap'[d.job].status = "failed"
           /\ heap'[d.job].error # NoError
           /\ heap'[d.job].results = heap[d.job].results
           /\ \A e \in BagToSet(inflight') :
                CopiesIn(e, inflight') <= CopiesIn(e, inflight)]_vars

\* C16: when the create or the send call of a dispatch fails, the item's
\* result records the failure, the cursor advances by exactly one, and status
\* and timers end up exactly as they do after a successful item: the failure
\* does not change the status, and a processing record with items left gets
\* its next item scheduled.  No dispatch is ever entered for an item that
\* already has a failed result in the record (no retry).
C16_StageFailureIsRecorded ==
    [][/\ \A d \in BagToSet(inflight), o \in StageFailures :
            DispatchSettles(d, o)
            => LET job == heap[d.job]
                   job2 == heap'[d.job]
                   ok == finishEmail(Store, d, AllOk)
               IN  /\ Len(job2.results) = Len(job.results) + 1
                   /\ SubSeq(job2.results, 1, Len(job.results)) = job.results
                   /\ job2.results[Len(job2.results)].email = d.email
                   /\ "Failed" \in {job2.results[Len(job2.results)].contactStatus,
                                    job2.results[Len(job2.results)].emailStatus}
                   /\ job2.currentIndex = job.currentIndex + 1
                   /\ job2.error = job.error
                   /\ job2.status = ok.heap[d.job].status
                   /\ timers' = ok.timers
                   /\ countdownIntervals' = ok.countdownIntervals
                   /\ job2.currentIndex < job2.totalEmails
                        => /\ job2.status = job.status
                           /\ job.status = "processing"
                                => timers'[d.key] =
                                     [key |-> d.key, job |-> d.job,
                                      delay |-> job.delay]
       /\ \A e \in BagToSet(inflight') :
            CopiesIn(e, inflight') > CopiesIn(e, inflight)
            => \A i \in 1..Len(heap'[e.job].results) :
                 heap'[e.job].results[i].email = e.email
                 => "Failed" \notin {heap'[e.job].results[i].contactStatus,
                                     heap'[e.job].results[i].emailStatus}]_vars

\* a failed first item, its dispatch settled while the record was processing,
\* and the second item scheduled
C16_Witness ==
    /\ lastOp = [op |-> "settle", key |-> "crm-1"]
    /\ HasJob("crm-1")
    /\ JobOf("crm-1").status = "processing"
    /\ JobOf("crm-1").currentIndex = 1
    /\ JobOf("crm-1").totalEmails = 2
    /\ Len(JobOf("crm-1").results) = 1
    /\ JobOf("crm-1").results[1].contactStatus = "Failed"
    /\ timers["crm-1"] # NoTimer
    /\ inflight = EmptyBag

PendingAt(k, i) ==
    /\ HasJob(k)
    /\ i <= Len(JobOf(k).results)
    /\ JobOf(k).results[i].liveStatus = "Pending"

\* C18: every result whose liveStatus is Pending eventually has a liveStatus
\* other than Pending, whatever the account lookup, the token call and the
\* history fetch of its live check answer: no result stays Pending forever.
C18_PendingResolves ==
    \A i \in 1..MaxEmails : PendingAt("crm-1", i) ~> ~PendingAt("crm-1", i)

\* C19: a live check that settles, with whatever answers, changes only the
\* liveStatus and the stored live response of the result it was launched
\* for: the job map, the timers, the countdown intervals, the dispatches in
\* flight, every other record, and in its own record the cursor, status,
\* countdown, error and every other result are unchanged.  Scheduling does
\* not wait for it: the dispatch that launches a live check arms the timer of
\* the next item in the same step.
C19_LiveCheckTouchesItsResultOnly ==
    [][/\ lastOp'.op = "liveCheck"
            => \E c \in liveChecks :
                /\ liveChecks' = liveChecks \ {c}
                /\ UNCHANGED <<jobs, timers, countdownIntervals, staleTimers,
                               staleIntervals, inflight>>
                /\ \A j \in 1..Len(heap) : j # c.job => heap'[j] = heap[j]
                /\ IF Reachable([Store EXCEPT !.liveChecks = @ \ {c}], c.job)
                   THEN /\ [heap'[c.job] EXCEPT !.results = <<>>]
                             = [heap[c.job] EXCEPT !.results = <<>>]
                        /\ Len(heap'[c.job].results) = Len(heap[c.job].results)
                        /\ \A i \in 1..Len(heap[c.job].results) :
                             IF i = c.item
                             THEN [heap'[c.job].results[i] EXCEPT
                                     !.liveStatus = "", !.response.live = ""]
                                  = [heap[c.job].results[i] EXCEPT
                                     !.liveStatus = "", !.response.live = ""]
                             ELSE heap'[c.job].results[i]
                                     = heap[c.job].results[i]
                   ELSE heap'[c.job] = Freed
       /\ \A c \in liveChecks' \ liveChecks :
            (/\ heap[c.job].status = "processing"
             /\ heap[c.job].currentIndex + 1 < heap[c.job].totalEmails)
            => /\ lastOp'.op = "settle"
               /\ heap'[c.job].results[c.item].liveStatus = "Pending"
               /\ timers'[lastOp'.key] = [key |-> lastOp'.key, job |-> c.job,
                                          delay |-> heap[c.job].delay]]_vars

\* the live check of the first item settled while the second item was being
\* dispatched; the first result has its final liveStatus
C19_Witness ==
    /\ lastOp = [op |-> "liveCheck", key |-> "crm-1"]
    /\ HasJob("crm-1")
    /\ JobOf("crm-1").status = "processing"
    /\ JobOf("crm-1").currentIndex = 1
    /\ JobOf("crm-1").results[1].liveStatus = "Sent"
    /\ InFlightOfJob(jobs["crm-1"]) = 1

\* C20: a step that is an operation on one key (startJob, pauseJob,
\* resumeJob, stopJob, a timer firing, a countdown tick, a dispatch or a live
\* check settling) leaves every other key as it was: its map entry, its
\* record (countdown included), its timer and countdown interval, pending
\* or leaked, and its dispatches and live checks in flight.
C20_KeysAreIndependent ==
    [][\A k \in JobKeys :
        lastOp'.key # k
        => /\ jobs'[k] = jobs[k]
           /\ HasJob(k) => heap'[jobs[k]] = heap[jobs[k]]
           /\ timers'[k] = timers[k]
           /\ countdownIntervals'[k] = countdownIntervals[k]
           /\ staleIntervals'[k] = staleIntervals[k]
           /\ \A t \in BagToSet(staleTimers) \cup BagToSet(staleTimers') :
                t.key = k => CopiesIn(t, staleTimers') = CopiesIn(t, staleTimers)
           /\ \A d \in BagToSet(inflight) \cup BagToSet(inflight') :
                d.key = k => CopiesIn(d, inflight') = CopiesIn(d, inflight)
           /\ HasJob(k) => {c \in liveChecks' : c.job = jobs[k]}
                             = {c \in liveChecks : c.job = jobs[k]}]_vars

\* crm-1 was paused while bigin-1 was counting down to its next dispatch
C20_Witness ==
    /\ lastOp = [op |-> "pauseJob", key |-> "crm-1"]
    /\ HasJob("crm-1") /\ JobOf("crm-1").status = "paused"
    /\ HasJob("bigin-1") /\ JobOf("bigin-1").status = "processing"
    /\ timers["bigin-1"] # NoTimer
    /\ countdownIntervals["bigin-1"]
    /\ JobOf("bigin-1").countdown = 1

\* C21: getStatus changes nothing (no record, timer, interval or dispatch),
\* and its report has one entry for every key of the job map and for no other
\* key; an entry gives exactly status, processed (the cursor), total (the
\* number of items), results, error, countdown and platform of the key's
\* record: no timer handle.
C21_GetStatusIsAPureRead ==
    [][lastOp'.op = "getStatus"
        => /\ ControlUnchanged
           /\ DOMAIN getStatus(Store) = {k \in JobKeys : HasJob(k)}
           /\ \A k \in DOMAIN getStatus(Store) :
                /\ DOMAIN getStatus(Store)[k]
                     = {"status", "processed", "total", "results", "error",
                        "countdown", "platform"}
                /\ getStatus(Store)[k].status = JobOf(k).status
                /\ getStatus(Store)[k].processed = JobOf(k).currentIndex
                /\ getStatus(Store)[k].total = Len(JobOf(k).emails)
                /\ getStatus(Store)[k].results = JobOf(k).results
                /\ getStatus(Store)[k].error = JobOf(k).error
                /\ getStatus(Store)[k].countdown = JobOf(k).countdown
                /\ getStatus(Store)[k].platform = JobOf(k).platform]_vars

\* a report of both keys, taken while crm-1 has a timer pending
C21_Witness ==
    /\ lastOp.op = "getStatus"
    /\ HasJob("crm-1") /\ HasJob("bigin-1")
    /\ timers["crm-1"] # NoTimer
    /\ JobOf("crm-1").countdown = 1
    /\ Len(JobOf("crm-1").results) = 1

\* the timeouts and the intervals that are armed for a key, whether the key's
\* map entry still holds their handle or not
ActiveTimersOfKey(k) ==
    (IF timers[k] # NoTimer THEN 1 ELSE 0)
    + BagCardinality([t \in {x \in BagToSet(staleTimers) : x.key = k}
                        |-> staleTimers[t]])

ActiveIntervalsOfKey(k) ==
    (IF countdownIntervals[k] THEN 1 ELSE 0) + staleIntervals[k]

\* C22: for every key at most one dispatch timer and at most one countdown
\* interval are active at any time.
C22_OneTimerPerKey ==
    \A k \in JobKeys : ActiveTimersOfKey(k) <= 1 /\ ActiveIntervalsOfKey(k) <= 1

\* C23: whenever the record of a key is not processing (paused, stopped,
\* completed or failed), no dispatch timer and no countdown interval is
\* active for the key.
C23_NoTimerUnlessProcessing ==
    \A k \in JobKeys :
        (HasJob(k) /\ JobOf(k).status # "processing")
        => ActiveTimersOfKey(k) = 0 /\ ActiveIntervalsOfKey(k) = 0

\* C24: a dispatch that is in flight for a paused or stopped record still
\* settles: the step appends exactly one result, for the item of that
\* dispatch, and advances the cursor by exactly one.  Apart from that, while
\* the record stays paused or stopped its cursor and results do not change,
\* no dispatch is entered for it and no timer is armed for it.
C24_InFlightLandsAfterPauseOrStop ==
    [][\A j \in 1..Len(heap) :
        (heap[j].status \in {"paused", "stopped"} /\ heap'[j] # Freed)
        => /\ \A d \in BagToSet(inflight') :
                d.job = j => CopiesIn(d, inflight') <= CopiesIn(d, inflight)
           /\ IF \E d \in BagToSet(inflight) :
                    d.job = j /\ CopiesIn(d, inflight') < CopiesIn(d, inflight)
              THEN /\ lastOp'.op = "settle"
                   /\ InFlightOfJob(j)' = InFlightOfJob(j) - 1
                   /\ heap'[j].currentIndex = heap[j].currentIndex + 1
                   /\ \E d \in BagToSet(inflight) :
                        /\ d.job = j
                        /\ CopiesIn(d, inflight') < CopiesIn(d, inflight)
                        /\ Len(heap'[j].results) = Len(heap[j].results) + 1
                        /\ SubSeq(heap'[j].results, 1, Len(heap[j].results))
                             = heap[j].results
                        /\ heap'[j].results[Len(heap'[j].results)].email
                             = d.email
              ELSE /\ heap'[j].currentIndex = heap[j].currentIndex
                   /\ heap'[j].results = heap[j].results
           /\ heap'[j].status \in {"paused", "stopped"}
                => /\ \A k \in JobKeys :
                        timers'[k] # timers[k] => timers'[k].job # j
                   /\ \A t \in BagToSet(staleTimers') :
                        t.job = j => CopiesIn(t, staleTimers')
                                        <= CopiesIn(t, staleTimers)]_vars

\* the dispatch of the first item settled after the job was stopped
C24_Witness ==
    /\ lastOp = [op |-> "settle", key |-> "crm-1"]
    /\ HasJob("crm-1")
    /\ JobOf("crm-1").status = "stopped"
    /\ JobOf("crm-1").currentIndex = 1
    /\ JobOf("crm-1").totalEmails = 2
    /\ Len(JobOf("crm-1").results) = 1
    /\ timers["crm-1"] = NoTimer
    /\ inflight = EmptyBag

\* C25: every change of a record's status is one of processing -> paused
\* (pauseJob), paused -> processing (resumeJob), processing -> completed,
\* processing -> failed, processing -> stopped and paused -> stopped
\* (stopJob).  resumeJob on a paused record with no item left takes the two
\* edges paused -> processing -> completed within its one call.
C25_StatusEdges ==
    [][\A j \in 1..Len(heap) :
        (heap'[j] # Freed /\ heap'[j].status # heap[j].status)
        => \/ /\ heap[j].status = "processing" /\ heap'[j].status = "paused"
              /\ lastOp'.op = "pauseJob"
           \/ /\ heap[j].status = "paused"
              /\ heap'[j].status \in {"processing", "completed"}
              /\ lastOp'.op = "resumeJob"
           \/ /\ heap[j].status = "processing"
              /\ heap'[j].status \in {"completed", "failed"}
           \/ /\ heap[j].status \in {"processing", "paused"}
              /\ heap'[j].status = "stopped"
              /\ lastOp'.op = "stopJob"]_vars

\* C26: resumeJob on a paused record with items left sets the status to
\* processing and the countdown to the record's delay and arms a timer for
\* that delay and a ticker; and that timer is the only one armed for the key,
\* so that nothing but its firing can start the next dispatch and no timer
\* armed before the pause is still running.
C26_ResumeRestartsTheDelay ==
    [][\A k \in JobKeys :
            (/\ lastOp'.op = "resumeJob" /\ lastOp'.key = k
             /\ HasJob(k) /\ JobOf(k).status = "paused"
             /\ JobOf(k).currentIndex < JobOf(k).totalEmails)
            => /\ heap'[jobs[k]].status = "processing"
               /\ heap'[jobs[k]].countdown = JobOf(k).delay
               /\ timers'[k] = [key |-> k, job |-> jobs[k],
                                delay |-> JobOf(k).delay]
               /\ countdownIntervals'[k]
               /\ \A t \in BagToSet(staleTimers') : t.key # k]_vars

\* C27: when the token call of a dispatch fails (the account is found), the
\* record of the dispatch gets one more result with contactStatus and
\* emailStatus Failed and the error in its raw responses, its status stays
\* processing, and with items left a timer is armed for the next one.
C27_TokenFailureIsNotFatal ==
    [][\A d \in BagToSet(inflight) :
        \A o \in {x \in Outcomes : x.account = "found" /\ x.token = "error"} :
            (/\ DispatchSettles(d, o)
             /\ heap[d.job].status = "processing"
             /\ d.email # Undefined)
            => LET job == heap'[d.job]
                   r == job.results[Len(job.results)]
               IN  /\ Len(job.results) = Len(heap[d.job].results) + 1
                   /\ r.contactStatus = "Failed"
                   /\ r.emailStatus = "Failed"
                   /\ "error" \in {r.response.contact, r.response.email}
                   /\ job.status = "processing"
                   /\ job.currentIndex < job.totalEmails
                        => timers'[d.key] # NoTimer]_vars

\* C28: a record that a key or a running dispatch still holds has its error
\* set only while its status is failed.
C28_ErrorOnlyWhenFailed ==
    \A j \in Live : heap[j].error # NoError => heap[j].status = "failed"

\* the results a send_mail call has left its answer in
SendCallMade(r) == r.response.email \in {"data", "error"}

\* the results whose Contacts call returned a contact id
IdCaptured(r) ==
    r.contactStatus = "Success" /\ r.response.contact \in {"data", "DUPLICATE_DATA"}

\* C29: in every result of a record whose formData.sendEmail is false the
\* emailStatus is Skipped and no send_mail call was made, whatever the
\* Contacts call answered; and a result holds the answer of a send_mail call
\* only if a contact id was captured, sendEmail is true and an entry of
\* fromAddresses matches fromEmail.
C29_SendOnlyWhenAskedAndPossible ==
    \A j \in Live : \A i \in 1..Len(heap[j].results) :
        LET r == heap[j].results[i]
            formData == heap[j].formData
        IN  /\ ~formData.sendEmail
                => r.emailStatus = "Skipped" /\ ~SendCallMade(r)
            /\ SendCallMade(r)
                => IdCaptured(r) /\ formData.sendEmail /\ formData.fromMatch

C29_Witness ==
    \E j \in Live :
        /\ ~heap[j].formData.sendEmail
        /\ Len(heap[j].results) = 2
        /\ IdCaptured(heap[j].results[1])
        /\ heap[j].results[2].contactStatus = "Failed"
        /\ \A i \in 1..2 : heap[j].results[i].emailStatus = "Skipped"

\* C30: in every result for an item of a record whose formData.sendEmail is
\* true, when the Contacts call was made and returned no contact id the
\* emailStatus is Failed.
C30_NoIdMeansSendFailed ==
    \A j \in Live : \A i \in 1..Len(heap[j].results) :
        LET r == heap[j].results[i]
        IN  (/\ heap[j].formData.sendEmail
             /\ r.email # Undefined
             /\ r.response.contact \in {"data", "error"}
             /\ ~IdCaptured(r))
            => r.emailStatus = "Failed"

\* C31: when a dispatch of a record with sendEmail true and no fromAddresses
\* entry matching fromEmail settles (account and token found), the Contacts
\* call has been made, the record gets one more result with emailStatus
\* Failed, its status stays processing, and with items left a timer is armed.
C31_FromMismatchIsNotFatal ==
    [][\A d \in BagToSet(inflight) :
        \A o \in {x \in Outcomes : x.account = "found" /\ x.token = "ok"} :
            (/\ DispatchSettles(d, o)
             /\ heap[d.job].status = "processing"
             /\ heap[d.job].formData.sendEmail
             /\ ~heap[d.job].formData.fromMatch
             /\ d.email # Undefined)
            => LET job == heap'[d.job]
                   r == job.results[Len(job.results)]
               IN  /\ Len(job.results) = Len(heap[d.job].results) + 1
                   /\ r.response.contact # "empty"
                   /\ r.emailStatus = "Failed"
                   /\ job.status = "processing"
                   /\ job.currentIndex < job.totalEmails
                        => timers'[d.key] # NoTimer]_vars

\* C32: the result a settling dispatch appends for an item has liveStatus Pending exactly
\* when formData.checkStatus is true and a contact id was captured, and
\* Skipped (not requested) otherwise; and a live check is launched for that
\* result exactly when it is appended as Pending.
C32_PendingIffCheckLaunched ==
    [][lastOp'.op = "settle"
        => \A j \in 1..Len(heap) :
            (/\ heap[j] # Freed /\ heap'[j] # Freed
             /\ Len(heap'[j].results) = Len(heap[j].results) + 1
             /\ heap'[j].results[Len(heap'[j].results)].email # Undefined)
            => LET n == Len(heap'[j].results)
                   r == heap'[j].results[n]
                   launched == \E c \in liveChecks' \ liveChecks :
                                    c.job = j /\ c.item = n
               IN  /\ r.liveStatus = "Pending"
                        <=> (heap[j].formData.checkStatus /\ IdCaptured(r))
                   /\ r.liveStatus \in {"Pending", "Skipped"}
                   /\ launched <=> r.liveStatus = "Pending"]_vars

\* C33: a live check that settles leaves in its result the liveStatus its
\* answers map to: Failed Check when the token call or the history fetch
\* throws, Not Found when the history is empty or absent, Sent for a latest
\* status sent, Bounced for bounced, the status itself for any other; no
\* answer leaves the result Pending; and a liveStatus that is no longer
\* Pending is never written again.
C33_LiveStatusMapping ==
    [][/\ \A c \in liveChecks : \A v \in CheckAnswers :
            (LiveCheckSettles(c, v) /\ heap'[c.job] # Freed)
            => LET r == heap'[c.job].results[c.item]
               IN  /\ r.liveStatus # "Pending"
                   /\ v.account = "found" =>
                        r.liveStatus =
                            CASE v.token = "error" \/ v.history = "throw"
                                    -> "Failed Check"
                              [] v.history = "none" -> "Not Found"
                              [] v.history \in {"sent", "SENT"} -> "Sent"
                              [] v.history = "bounced" -> "Bounced"
                              [] OTHER -> v.history
       /\ \A j \in 1..Len(heap) :
            (heap[j] # Freed /\ heap'[j] # Freed)
            => \A i \in 1..Len(heap[j].results) :
                   heap[j].results[i].liveStatus # "Pending"
                   => heap'[j].results[i].liveStatus
                        = heap[j].results[i].liveStatus]_vars

\* C34: a live check that settles after its record was stopped, or after a
\* startJob put another record under its key, settles like any other (it is
\* taken out of the checks in flight) and writes to the result it was
\* launched with only: the job map and the record now under the key, when it
\* is another one, are unchanged, and its own record keeps its status, its
\* cursor, its error and every other result.
C34_LateLiveCheckIsHarmless ==
    [][lastOp'.op = "liveCheck"
        => \E c \in liveChecks :
            LET k == getJobKey(heap[c.job].accountId, heap[c.job].platform)
            IN  /\ liveChecks' = liveChecks \ {c}
                /\ (jobs[k] # c.job \/ heap[c.job].status = "stopped")
                    => /\ jobs' = jobs
                       /\ jobs[k] # c.job => heap'[jobs[k]] = heap[jobs[k]]
                       /\ heap'[c.job] # Freed
                            => /\ [heap'[c.job] EXCEPT !.results = <<>>]
                                    = [heap[c.job] EXCEPT !.results = <<>>]
                               /\ Len(heap'[c.job].results)
                                    = Len(heap[c.job].results)
                               /\ \A i \in 1..Len(heap[c.job].results) :
                                    i # c.item
                                    => heap'[c.job].results[i]
                                        = heap[c.job].results[i]]_vars

\* the first record was stopped and replaced while its second item was being
\* dispatched; the live check of its first item then settled, and the
\* replacement has dispatched its own first item
C34_Witness ==
    /\ lastOp = [op |-> "liveCheck", key |-> "crm-1"]
    /\ Len(heap) = 2 /\ jobs["crm-1"] = 2
    /\ heap[1] # Freed /\ heap[1].status = "stopped"
    /\ Len(heap[1].results) = 1 /\ heap[1].results[1].liveStatus = "Sent"
    /\ InFlightOfJob(1) = 1
    /\ Len(heap[2].results) = 1 /\ heap[2].results[1].liveStatus = "Pending"

\* C35: after every step the countdown of every record is at least 0 and at
\* most the record's delay; and a timer that fires for a key whose record is
\* processing starts a dispatch for it whatever the countdown is, and leaves
\* the countdown as it was.
C35_CountdownBoundedAndCosmetic ==
    [][/\ \A j \in 1..Len(heap') :
            heap'[j] # Freed
            => heap'[j].countdown >= 0 /\ heap'[j].countdown <= heap'[j].delay
       /\ \A k \in JobKeys :
            (/\ lastOp' = [op |-> "timer", key |-> k]
             /\ HasJob(k) /\ JobOf(k).status = "processing")
            => /\ InFlightOfJob(jobs[k])' = InFlightOfJob(jobs[k]) + 1
               /\ heap'[jobs[k]].countdown = JobOf(k).countdown]_vars

\* the refresh requests for an account id that have not been answered yet
Outstanding(ps, id) ==
    {r \in 1..Len(ps) : ps[r].id = id /\ ps[r].state = "pending"}

\* C36: after every step at most one refresh request is outstanding for each
\* account id; a caller that enters getAccessToken for an account id while a
\* request for it is outstanding awaits that request, and a caller that
\* resumes returns the outcome of the request it awaited; and when a request
\* is answered, with a token or an error, the lock of its account id is
\* gone, and an error leaves the cache as it was.
C36_RefreshIsSingleFlight ==
    [][/\ \A id \in AccountIds :
            Cardinality(Outstanding(refreshPromises', id)) <= 1
       /\ \A id \in AccountIds : \A r \in Outstanding(refreshPromises, id) :
            lastOp' = [op |-> "getAccessToken", key |-> id]
            => \E copy \in TokenCopies :
                 tokenWaiters' = tokenWaiters (+)
                    SetToBag({[copy |-> copy, id |-> id, promise |-> r]})
       /\ lastOp'.op = "tokenReturn"
            => /\ tokenReturn'.promise \in 1..Len(refreshPromises)
               /\ refreshPromises[tokenReturn'.promise].state # "pending"
               /\ tokenReturn'.result =
                    IF refreshPromises[tokenReturn'.promise].state = "token"
                    THEN tokenReturn'.promise ELSE -1
       /\ \A r \in 1..Len(refreshPromises) :
            (refreshPromises[r].state = "pending"
             /\ refreshPromises'[r].state # "pending")
            => /\ tokenRefreshLocks'[refreshPromises[r].copy][refreshPromises[r].id]
                    = NoLock
               /\ refreshPromises'[r].state = "error"
                    => accessTokenCache' = accessTokenCache]_vars

\* C37: whenever the record the job map holds for a key is processing, a
\* dispatch of that record is awaiting its remote calls or a timer for the
\* key is pending; and, timers firing and remote calls settling, a record
\* that is processing at some cursor does not stay so forever.
C37_ProcessingIsNeverStuck ==
    /\ [](\A k \in JobKeys :
            (HasJob(k) /\ JobOf(k).status = "processing")
            => InFlightOfJob(jobs[k]) > 0 \/ timers[k] # NoTimer)
    /\ \A i \in 0..MaxEmails :
            (HasJob("crm-1") /\ JobOf("crm-1").status = "processing"
                /\ JobOf("crm-1").currentIndex = i)
            ~> ~(HasJob("crm-1") /\ JobOf("crm-1").status = "processing"
                    /\ JobOf("crm-1").currentIndex = i)

\* the record was paused after its first item and has just been resumed: it
\* is processing at cursor 1 with nothing in flight, and the timer of the
\* second item is pending
C37_Witness ==
    /\ HasJob("crm-1")
    /\ JobOf("crm-1").status = "processing"
    /\ JobOf("crm-1").currentIndex = 1
    /\ InFlightOfJob(jobs["crm-1"]) = 0
    /\ timers["crm-1"] # NoTimer
    /\ lastOp = [op |-> "resumeJob", key |-> "crm-1"]

\* the requests of the client's processEmail in flight for an account
RequestsOf(a) ==
    BagCardinality([q \in {x \in BagToSet(requests) : x.account = a}
                        |-> requests[q]])

\* C38: in the client's BulkJobManager at most one request is in flight for
\* an account, and the results of the account's job hold at most one result
\* for each entry of emailsToProcess: no more results than entries, and no
\* email twice.
C38_ClientProcessesEachOnce ==
    \A a \in AccountIds :
        /\ RequestsOf(a) <= 1
        /\ Len(accountStates[a].results) <= Len(accountStates[a].emailsToProcess)
        /\ \A i, j \in 1..Len(accountStates[a].results) :
                i # j => accountStates[a].results[i].email
                            # accountStates[a].results[j].email

\* C39: for every timer of the client store, a pause, resume or stop never
\* lowers totalPausedTime, and after every step totalPausedTime is at most
\* the time from startTime to endTime, or to the clock while the timer is
\* not stopped, and the active time the page computes is not negative.
C39_PausedTimeIsBounded ==
    [][\A k \in JobKeys :
        LET timer == timerStore'[k]
        IN  /\ (timerStore[k] # NoTimerData /\ lastOp'.op # "startTimer")
                => timer.totalPausedTime >= timerStore[k].totalPausedTime
            /\ timer # NoTimerData
                => /\ timer.totalPausedTime <=
                        (IF timer.endTime # Null THEN timer.endTime ELSE now')
                            - timer.startTime
                   /\ activeTime(timer, now') >= 0]_vars

TypeOK ==
    /\ jobs \in [JobKeys -> 0..Len(heap)]
    /\ \A j \in 1..Len(heap) :
          heap[j].status \in {"processing", "paused", "stopped", "completed", "failed", "freed"}
====
